---- MODULE Spec2Model ----
(***************************************************************************)
(* Model of rustymark (src/src/main.rs): a text watermark is rasterized,   *)
(* rotated, trimmed (cut_image) and tiled over a base image                *)
(* (cover_image_with_watermark).                                           *)
(*                                                                         *)
(* Four specifications share the variables below:                          *)
(*   SpecCut   - cut_image, one step per scanned row / column              *)
(*   SpecCover - cover_image_with_watermark, one step per overlay call     *)
(*   SpecText  - gen_text_pic, one step per measured / drawn line          *)
(*   Spec      - main, one step per stage and per file operation           *)
(***************************************************************************)
EXTENDS Integers, Sequences, FiniteSets

\* ------------------------------------------------------------------ bounds
MaxWidth == 3
MaxHeight == 3
MaxMargin == 2
MaxWideExtra == 3
MaxLines == 2
ManyLines == 18
MaxBaseW == 3
MaxBaseH == 3

\* ------------------------------------------------------- program constants
I32Max == 2147483647
CanvasWidth == 1000
CanvasHeight == 600
LineMargin == 10
TrailingColumnKeep == 50
RowOffset == 120
ColumnOffset == 80
XBias == 60
YBias == 40
TransparentAlpha == 0
TextAlpha == 100

VARIABLES
  pc,
  \* AppConfig
  text, margin, alpha,
  \* cut_image
  rotated, y, x, empty_lines, empty_columns, cutted_height, cutted_width,
  top, left, new_width, new_height, cutted, underflow,
  \* cover_image_with_watermark
  image, watermark, line, column, i, j, calls, overlay_at,
  \* gen_text_pic
  index, longest_text_start_x, shortest_text_start_x, total_text_height,
  avg_text_width, draws,
  \* main
  log, failed

configVars == <<text, margin, alpha>>
cutState == <<rotated, y, x, empty_lines, empty_columns, cutted_height,
              cutted_width, top, left, new_width, new_height, cutted>>
cutVars == <<cutState, underflow>>
coverVars == <<image, watermark, line, column, i, j, calls, overlay_at>>
textVars == <<index, longest_text_start_x, shortest_text_start_x,
              total_text_height, avg_text_width, draws>>
mainVars == <<log, failed>>
vars == <<pc, configVars, cutVars, coverVars, textVars, mainVars>>

\* ----------------------------------------------------------- u32 arithmetic
\* A u32 is held as its two's-complement residue (the same 32 bits read as
\* i32): 0 .. 2^31-1 stand for themselves, a negative r stands for 2^32 + r.
\* a < b on the unsigned values
ULess(a, b) == IF (a >= 0) = (b >= 0) THEN a < b ELSE a >= 0

\* a - b on u32: the wrapped value a release build computes, and whether the
\* subtraction overflows (a debug build panics there).
CheckedSub(a, b) == [v |-> a - b, uf |-> ULess(a, b)]

\* r / 2 on u32
UHalf(r) == IF r >= 0 THEN r \div 2 ELSE I32Max + ((r \div 2) + 1)

\* (a + b) as i32, for u32 a, b below 2^31
AddAsI32(a, b) ==
  IF a > I32Max - b THEN ((a - I32Max) + (b - I32Max)) - 2 ELSE a + b

\* ------------------------------------------------- values left untouched by
\* a specification that does not use them
NoCanvas == [width |-> 0, height |-> 0, px |-> <<>>]

CutIdle ==
  /\ rotated = NoCanvas /\ y = 0 /\ x = 0
  /\ empty_lines = 0 /\ empty_columns = 0
  /\ cutted_height = 0 /\ cutted_width = 0 /\ top = 0 /\ left = 0
  /\ new_width = 0 /\ new_height = 0 /\ cutted = NoCanvas
  /\ underflow = FALSE

CoverIdle ==
  /\ image = [width |-> 0, height |-> 0]
  /\ watermark = [width |-> 0, height |-> 0]
  /\ line = 0 /\ column = 0 /\ i = 0 /\ j = 0 /\ calls = 0
  /\ overlay_at = <<>>

TextIdle ==
  /\ index = 0 /\ longest_text_start_x = 0 /\ shortest_text_start_x = 0
  /\ total_text_height = 0 /\ avg_text_width = 0 /\ draws = <<>>

MainIdle == log = <<>> /\ failed = {}

\* ======================================================================
\* cut_image
\* ======================================================================
AlphaValues == {TransparentAlpha, TextAlpha}

\* dense small canvases
SmallCanvases ==
  UNION { [width : {w}, height : {h},
           px : [(0 .. w - 1) \X (0 .. h - 1) -> AlphaValues]] :
          w \in 1 .. MaxWidth, h \in 1 .. MaxHeight }

\* canvases wider than the fixed trailing-column threshold, a few pixels drawn
WidePixels(w) == {<<0, 0>>, <<1, 1>>, <<1, 2>>, <<w - 1, 1>>}

WideCanvases ==
  UNION { { [width |-> w, height |-> 3,
             px |-> [p \in (0 .. w - 1) \X (0 .. 2) |->
                       IF p \in S THEN TextAlpha ELSE TransparentAlpha]] :
            S \in SUBSET WidePixels(w) } :
          w \in (TrailingColumnKeep + 1) .. (TrailingColumnKeep + MaxWideExtra) }

Canvases == SmallCanvases \cup WideCanvases

is_empty_line(ln, img, a) ==
  \A k \in 0 .. img.width - 1 : img.px[<<k, ln>>] = a

is_empty_column(row, img, a) ==
  \A k \in 0 .. img.height - 1 : img.px[<<row, k>>] = a

\* lines 188-190 / 203-205: the crop offset taken when a non-empty row or
\* column ends a run of `empty` empty ones
LeadingOffset(empty, keep, current) ==
  IF empty > keep /\ current = 0
    THEN CheckedSub(empty, keep)
    ELSE [v |-> current, uf |-> FALSE]

\* lines 195-197 / 209-211 without the guard
TrailingCutUnguarded(extent, empty, keep) ==
  LET d == CheckedSub(empty, keep)
      r == CheckedSub(extent, d.v)
  IN [v |-> r.v, uf |-> d.uf \/ r.uf]

\* lines 195-197 / 209-211: the extent kept after a trailing run of `empty`
\* empty rows or columns
TrailingCut(extent, empty, keep) ==
  IF empty > keep
    THEN LET d == CheckedSub(empty, keep)
             r == CheckedSub(extent, d.v)
         IN [v |-> r.v, uf |-> d.uf \/ r.uf]
    ELSE [v |-> extent, uf |-> FALSE]

\* where a step continues: a debug build panics on overflow, a release build
\* carries on with the wrapped value
After(uf, next) == IF uf THEN {"panic", next} ELSE {next}

CutInit ==
  /\ pc = "rows"
  /\ rotated \in Canvases
  /\ margin \in 0 .. MaxMargin
  /\ alpha \in AlphaValues
  /\ text = <<>>
  /\ y = 0 /\ x = 0
  /\ empty_lines = 0 /\ empty_columns = 0
  /\ cutted_height = rotated.height
  /\ cutted_width = rotated.width
  /\ top = 0 /\ left = 0
  /\ new_width = 0 /\ new_height = 0
  /\ cutted = NoCanvas
  /\ underflow = FALSE
  /\ CoverIdle /\ TextIdle /\ MainIdle

\* lines 184-193, one iteration
CutRowStep ==
  /\ pc = "rows"
  /\ y < rotated.height
  /\ IF is_empty_line(y, rotated, alpha)
       THEN /\ empty_lines' = empty_lines + 1
            /\ UNCHANGED <<top, underflow, pc>>
       ELSE LET t == LeadingOffset(empty_lines, margin, top)
            IN /\ top' = t.v
               /\ underflow' = (underflow \/ t.uf)
               /\ empty_lines' = 0
               /\ pc' \in After(t.uf, "rows")
  /\ y' = y + 1
  /\ UNCHANGED <<configVars, rotated, x, empty_columns, cutted_height,
                 cutted_width, left, new_width, new_height, cutted>>
  /\ UNCHANGED <<coverVars, textVars, mainVars>>

\* lines 195-197
CutRowEnd ==
  /\ pc = "rows"
  /\ y = rotated.height
  /\ LET c == TrailingCut(cutted_height, empty_lines, margin)
     IN /\ cutted_height' = c.v
        /\ underflow' = (underflow \/ c.uf)
        /\ pc' \in After(c.uf, "columns")
  /\ UNCHANGED <<configVars, rotated, y, x, empty_lines, empty_columns,
                 cutted_width, top, left, new_width, new_height, cutted>>
  /\ UNCHANGED <<coverVars, textVars, mainVars>>

\* lines 199-208, one iteration
CutColumnStep ==
  /\ pc = "columns"
  /\ x < rotated.width
  /\ IF is_empty_column(x, rotated, alpha)
       THEN /\ empty_columns' = empty_columns + 1
            /\ UNCHANGED <<left, underflow, pc>>
       ELSE LET t == LeadingOffset(empty_columns, margin, left)
            IN /\ left' = t.v
               /\ underflow' = (underflow \/ t.uf)
               /\ empty_columns' = 0
               /\ pc' \in After(t.uf, "columns")
  /\ x' = x + 1
  /\ UNCHANGED <<configVars, rotated, y, empty_lines, cutted_height,
                 cutted_width, top, new_width, new_height, cutted>>
  /\ UNCHANGED <<coverVars, textVars, mainVars>>

\* lines 209-211
CutColumnEnd ==
  /\ pc = "columns"
  /\ x = rotated.width
  /\ LET c == TrailingCut(cutted_width, empty_columns, TrailingColumnKeep)
     IN /\ cutted_width' = c.v
        /\ underflow' = (underflow \/ c.uf)
        /\ pc' \in After(c.uf, "size")
  /\ UNCHANGED <<configVars, rotated, y, x, empty_lines, empty_columns,
                 cutted_height, top, left, new_width, new_height, cutted>>
  /\ UNCHANGED <<coverVars, textVars, mainVars>>

\* lines 213-214
CutSize ==
  /\ pc = "size"
  /\ LET w == CheckedSub(cutted_width, left)
         h == CheckedSub(cutted_height, top)
     IN /\ new_width' = w.v
        /\ new_height' = h.v
        /\ underflow' = (underflow \/ w.uf \/ h.uf)
        /\ pc' \in After(w.uf \/ h.uf, "copy")
  /\ UNCHANGED <<configVars, rotated, y, x, empty_lines, empty_columns,
                 cutted_height, cutted_width, top, left, cutted>>
  /\ UNCHANGED <<coverVars, textVars, mainVars>>

\* the copy loop reads rotated.get_pixel(x, y) for x in left..cutted_width,
\* y in top..cutted_height; get_pixel panics outside the canvas
CopyInBounds ==
  \/ left >= cutted_width
  \/ top >= cutted_height
  \/ (cutted_width <= rotated.width /\ cutted_height <= rotated.height)

\* lines 216-224
CutCopy ==
  /\ pc = "copy"
  /\ IF CopyInBounds /\ ~underflow
       THEN /\ cutted' =
                 [width |-> new_width, height |-> new_height,
                  px |-> [p \in (0 .. new_width - 1) \X (0 .. new_height - 1)
                            |-> rotated.px[<<p[1] + left, p[2] + top>>]]]
            /\ pc' = "save"
       ELSE /\ cutted' = cutted
            /\ pc' = "panic"
  /\ UNCHANGED <<configVars, rotated, y, x, empty_lines, empty_columns,
                 cutted_height, cutted_width, top, left, new_width,
                 new_height, underflow>>
  /\ UNCHANGED <<coverVars, textVars, mainVars>>

\* lines 226-228: the tile is returned unless writing watermark_cutted.png
\* fails (expect)
CutSave ==
  /\ pc = "save"
  /\ \E ok \in BOOLEAN : pc' = IF ok THEN "returned" ELSE "save_failed"
  /\ UNCHANGED <<configVars, cutVars, coverVars, textVars, mainVars>>

CutNext ==
  \/ CutRowStep
  \/ CutRowEnd
  \/ CutColumnStep
  \/ CutColumnEnd
  \/ CutSize
  \/ CutCopy
  \/ CutSave

SpecCut == CutInit /\ [][CutNext]_vars

\* ---------------------------------------------------------------- cut_image
\* properties

NonEmptyRows == {r \in 0 .. rotated.height - 1 : ~is_empty_line(r, rotated, alpha)}
NonEmptyColumns == {c \in 0 .. rotated.width - 1 : ~is_empty_column(c, rotated, alpha)}
Min(S) == CHOOSE m \in S : \A n \in S : m <= n
AllEmpty == NonEmptyRows = {}
AfterRowScan == pc \in {"columns", "size", "copy", "save", "returned", "save_failed"}
AfterColumnScan == pc \in {"size", "copy", "save", "returned", "save_failed"}

\* the offset the first transition from the leading run fixes
FirstTransitionOffset(S) ==
  IF S # {} /\ Min(S) > margin THEN Min(S) - margin ELSE 0

NoEmptyBorder ==
  /\ 0 \in NonEmptyRows /\ (rotated.height - 1) \in NonEmptyRows
  /\ 0 \in NonEmptyColumns /\ (rotated.width - 1) \in NonEmptyColumns

\* C3: a canvas with no empty border row or column is returned with the same
\* width and height, whatever is empty in its interior.
C3_BorderlessKeepsSize ==
  (pc = "returned" /\ NoEmptyBorder) =>
    (cutted.width = rotated.width /\ cutted.height = rotated.height)

\* C4: the top (left) offset is the one fixed at the first transition out of
\* the leading run of empty rows (columns); no later run changes it, so it
\* never exceeds the index of the first non-empty row (column).
C4_OffsetCapturedOnce ==
  /\ AfterRowScan =>
       /\ top = FirstTransitionOffset(NonEmptyRows)
       /\ (NonEmptyRows # {} => top <= Min(NonEmptyRows))
  /\ AfterColumnScan =>
       /\ left = FirstTransitionOffset(NonEmptyColumns)
       /\ (NonEmptyColumns # {} => left <= Min(NonEmptyColumns))

\* C5: an entirely empty canvas, or a margin larger than the canvas, ends in
\* a fatal geometry error: no tile is returned and nothing wraps.
C5_GeometryErrorReported ==
  (AllEmpty \/ margin > rotated.width \/ margin > rotated.height) =>
    (pc # "returned" /\ ~underflow)

\* C10: no unsigned subtraction of cut_image underflows; after both scans
\* left <= cutted_width <= width and top <= cutted_height <= height, so the
\* copy loop reads inside the canvas; a canvas with a non-empty pixel gives a
\* tile of width >= 1 and height >= 1, and a zero dimension arises only from
\* an entirely empty canvas with margin 0.
C10_CutArithmeticSafe ==
  /\ ~underflow
  /\ pc # "panic"
  /\ AfterRowScan =>
       (0 <= top /\ top <= cutted_height /\ cutted_height <= rotated.height)
  /\ AfterColumnScan =>
       (0 <= left /\ left <= cutted_width /\ cutted_width <= rotated.width)
  /\ pc = "returned" =>
       /\ cutted.width = cutted_width - left
       /\ cutted.height = cutted_height - top
       /\ (~AllEmpty => (cutted.width >= 1 /\ cutted.height >= 1))
       /\ ((cutted.width = 0 \/ cutted.height = 0) => (AllEmpty /\ margin = 0))

\* a tile cropped on all four sides has been returned
C10_Witness ==
  /\ pc = "returned"
  /\ ~AllEmpty
  /\ top > 0 /\ left > 0
  /\ cutted_height < rotated.height
  /\ cutted_width < rotated.width

\* ======================================================================
\* cover_image_with_watermark
\* ======================================================================
Size(w, h) == [width |-> w, height |-> h]

TileWidths == {0, 40, 81, 100}
TileHeights == {0, 50, 121}

\* the 100x50 tile on the 1000x500 base, and small bases under every tile
CoverInputs ==
  {<<Size(1000, 500), Size(100, 50)>>} \cup
  { <<Size(w, h), Size(tw, th)>> :
      w \in 1 .. MaxBaseW, h \in 1 .. MaxBaseH,
      tw \in TileWidths, th \in TileHeights }

\* lines 84-85: `base + offset / tile` (the division binds tighter)
TileCount(base, offset, tile) == base + (offset \div tile)

\* lines 92-93: `(k * tile) as i64 - bias`
OverlayCoord(k, tile, bias) == k * tile - bias

CoverInit ==
  /\ pc = "open"
  /\ \E in \in CoverInputs : image = in[1] /\ watermark = in[2]
  /\ line = 0 /\ column = 0 /\ i = 0 /\ j = 0 /\ calls = 0
  /\ overlay_at = <<>>
  /\ text = <<>> /\ margin = 0 /\ alpha = 0
  /\ CutIdle /\ TextIdle /\ MainIdle

\* line 82: image::open(..).unwrap()
CoverOpen ==
  /\ pc = "open"
  /\ \E ok \in BOOLEAN : pc' = IF ok THEN "count" ELSE "panic"
  /\ UNCHANGED <<configVars, cutVars, coverVars, textVars, mainVars>>

\* lines 84-85: a zero tile dimension is a division by zero
CoverCount ==
  /\ pc = "count"
  /\ IF watermark.height = 0 \/ watermark.width = 0
       THEN /\ pc' = "panic"
            /\ UNCHANGED <<line, column>>
       ELSE /\ line' = TileCount(image.height, RowOffset, watermark.height)
            /\ column' = TileCount(image.width, ColumnOffset, watermark.width)
            /\ pc' = "tiling"
  /\ UNCHANGED <<image, watermark, i, j, calls, overlay_at>>
  /\ UNCHANGED <<configVars, cutVars, textVars, mainVars>>

\* lines 89-94: one overlay call
CoverOverlay ==
  /\ pc = "tiling"
  /\ i < line /\ j < column
  /\ overlay_at' = <<OverlayCoord(i, watermark.width, XBias),
                     OverlayCoord(j, watermark.height, YBias)>>
  /\ calls' = calls + 1
  /\ j' = j + 1
  /\ UNCHANGED <<pc, image, watermark, line, column, i>>
  /\ UNCHANGED <<configVars, cutVars, textVars, mainVars>>

\* line 88 exhausted: next i
CoverNextLine ==
  /\ pc = "tiling"
  /\ i < line /\ j = column
  /\ i' = i + 1
  /\ j' = 0
  /\ UNCHANGED <<pc, image, watermark, line, column, calls, overlay_at>>
  /\ UNCHANGED <<configVars, cutVars, textVars, mainVars>>

\* line 98
CoverReturn ==
  /\ pc = "tiling"
  /\ i = line
  /\ pc' = "covered"
  /\ UNCHANGED <<configVars, cutVars, coverVars, textVars, mainVars>>

CoverNext ==
  \/ CoverOpen
  \/ CoverCount
  \/ CoverOverlay
  \/ CoverNextLine
  \/ CoverReturn

SpecCover == CoverInit /\ [][CoverNext]_vars

\* C1: the tile rows are (H + 120) / th, the tile columns (W + 80) / tw, and
\* exactly rows * columns overlay calls are made.
C1_TileCounts ==
  /\ pc \in {"tiling", "covered"} =>
       /\ line = (image.height + RowOffset) \div watermark.height
       /\ column = (image.width + ColumnOffset) \div watermark.width
  /\ pc = "covered" =>
       calls = ((image.height + RowOffset) \div watermark.height)
               * ((image.width + ColumnOffset) \div watermark.width)

\* C2: every overlay call lands at least partly inside the base canvas.
C2_OverlayOnCanvas ==
  overlay_at # <<>> =>
    /\ overlay_at[1] < image.width
    /\ overlay_at[1] + watermark.width > 0
    /\ overlay_at[2] < image.height
    /\ overlay_at[2] + watermark.height > 0

\* ======================================================================
\* gen_text_pic
\* ======================================================================
\* text_size of a line: its measured width and height
Widths == {100, 333, 400}
Heights == {20, 30}
Measures == [width : Widths, height : Heights]

\* a few lines of any measures, or many lines of one measure
TextInputs ==
  UNION { [1 .. n -> Measures] : n \in 1 .. MaxLines } \cup
  { [k \in 1 .. n |-> m] : n \in 1 .. ManyLines, m \in Measures }

\* line 129
TextStartX(text_width) == UHalf(CheckedSub(CanvasWidth, text_width).v)

\* lines 130-132
UpdateLongest(text_start_x, text_width, longest) ==
  IF text_start_x > longest THEN text_width ELSE longest

\* lines 133-135
UpdateShortest(text_start_x, text_width, shortest) ==
  IF text_start_x < shortest \/ shortest = 0 THEN text_width ELSE shortest

\* lines 231-235
get_start_height(height, length, idx, text_height, mrg) ==
  LET block == CheckedSub((text_height + mrg) * length, mrg)
      d == CheckedSub(height, block.v)
      start == UHalf(d.v)
      offset == (text_height + mrg) * idx
  IN [v |-> AddAsI32(start, offset), uf |-> block.uf \/ d.uf]

TextInit ==
  /\ pc = "font"
  /\ text \in TextInputs
  /\ margin = 0 /\ alpha = 0
  /\ index = 0
  /\ longest_text_start_x = 0
  /\ shortest_text_start_x = 0
  /\ total_text_height = 0
  /\ avg_text_width = 0
  /\ draws = <<>>
  /\ CutIdle /\ CoverIdle /\ MainIdle

\* lines 119-120: fs::read(..).unwrap(), Font::try_from_vec(..).unwrap()
TextLoadFont ==
  /\ pc = "font"
  /\ \E ok \in BOOLEAN : pc' = IF ok THEN "measure" ELSE "panic"
  /\ UNCHANGED <<configVars, cutVars, coverVars, textVars, mainVars>>

\* lines 127-140, one iteration
TextMeasure ==
  /\ pc = "measure"
  /\ index < Len(text)
  /\ LET m == text[index + 1]
         s == CheckedSub(CanvasWidth, m.width)
         text_start_x == TextStartX(m.width)
     IN /\ longest_text_start_x' =
             UpdateLongest(text_start_x, m.width, longest_text_start_x)
        /\ shortest_text_start_x' =
             UpdateShortest(text_start_x, m.width, shortest_text_start_x)
        /\ total_text_height' =
             (IF m.height > total_text_height THEN m.height
                                              ELSE total_text_height)
        /\ underflow' = (underflow \/ s.uf)
        /\ pc' \in After(s.uf, "measure")
  /\ index' = index + 1
  /\ UNCHANGED <<avg_text_width, draws>>
  /\ UNCHANGED <<configVars, cutState, coverVars, mainVars>>

\* line 141
TextAverage ==
  /\ pc = "measure"
  /\ index = Len(text)
  /\ avg_text_width' = (longest_text_start_x + shortest_text_start_x) \div 2
  /\ index' = 0
  /\ pc' = "draw"
  /\ UNCHANGED <<longest_text_start_x, shortest_text_start_x,
                 total_text_height, draws>>
  /\ UNCHANGED <<configVars, cutVars, coverVars, mainVars>>

\* lines 143-162, one iteration: draw_text_mut at (avg_text_width, final_height)
TextDraw ==
  /\ pc = "draw"
  /\ index < Len(text)
  /\ LET final_height ==
           get_start_height(CanvasHeight, Len(text), index,
                            text[index + 1].height, LineMargin)
     IN /\ underflow' = (underflow \/ final_height.uf)
        /\ pc' \in After(final_height.uf, "draw")
        /\ draws' = IF pc' = "panic"
                       THEN draws
                       ELSE Append(draws, <<avg_text_width, final_height.v>>)
  /\ index' = index + 1
  /\ UNCHANGED <<longest_text_start_x, shortest_text_start_x,
                 total_text_height, avg_text_width>>
  /\ UNCHANGED <<configVars, cutState, coverVars, mainVars>>

\* lines 164-165: img.save("watermark_raw.png").expect(..)
TextSave ==
  /\ pc = "draw"
  /\ index = Len(text)
  /\ \E ok \in BOOLEAN : pc' = IF ok THEN "rasterized" ELSE "panic"
  /\ UNCHANGED <<configVars, cutVars, coverVars, textVars, mainVars>>

TextNext ==
  \/ TextLoadFont
  \/ TextMeasure
  \/ TextAverage
  \/ TextDraw
  \/ TextSave

SpecText == TextInit /\ [][TextNext]_vars

Max(S) == CHOOSE m \in S : \A n \in S : m >= n
CenteringOffsets == {(CanvasWidth - text[k].width) \div 2 : k \in 1 .. Len(text)}
LineHeights == {text[k].height : k \in 1 .. Len(text)}
GroupStart ==
  (CanvasHeight - ((Max(LineHeights) + LineMargin) * Len(text) - LineMargin))
    \div 2

\* C8: all lines are drawn at the one x that averages the minimum and the
\* maximum of the per-line centering offsets (1000 - w_i) / 2.
C8_SharedXIsOffsetAverage ==
  \A k \in 1 .. Len(draws) :
    draws[k][1] = (Min(CenteringOffsets) + Max(CenteringOffsets)) \div 2

\* C9: the lines are centered as a group: line i is drawn at
\* group_start + i * (height + 10), group_start computed once from the
\* tallest line, and the computation does not underflow.
C9_GroupCentered ==
  /\ ~underflow
  /\ \A k \in 1 .. Len(draws) :
       draws[k][2] = GroupStart + (k - 1) * (text[k].height + LineMargin)

\* ======================================================================
\* main
\* ======================================================================
\* config.font, config.input and config.output are taken to be three distinct
\* paths, none of them one of the three fixed file names the stages write.
FontFile == "font"
InputFile == "input"
OutputFile == "output"
RawFile == "watermark_raw.png"
RotatedFile == "watermark_rotated.png"
CuttedFile == "watermark_cutted.png"

\* the tiles cut_image can hand on: never of width 0
TrimmedTiles == {Size(tw, th) : tw \in TileWidths \ {0}, th \in TileHeights}

\* line 17 without the check
IsEmptyTextSkipped(t) == FALSE

\* line 17: config.text.is_empty()
IsEmptyText(t) == Len(t) = 0

\* unwrap / expect that lets a failure through
UnwrapIgnored(ok, next) == next

\* unwrap / expect: a failure panics, nothing after it runs
Unwrap(ok, next) == IF ok THEN next ELSE "panic"

\* get_start_height overflows for some line of the text
LayoutUnderflows(t) ==
  \E k \in 1 .. Len(t) :
    get_start_height(CanvasHeight, Len(t), k - 1, t[k].height, LineMargin).uf

MainInit ==
  /\ pc = "main"
  /\ text \in {<<>>} \cup TextInputs
  /\ margin = 0 /\ alpha = 0
  /\ watermark = Size(0, 0)
  /\ image = Size(0, 0)
  /\ line = 0 /\ column = 0 /\ i = 0 /\ j = 0 /\ calls = 0
  /\ overlay_at = <<>>
  /\ log = <<>>
  /\ failed = {}

\* one file operation of a stage: it is logged, and may fail
FileOp(at, op, file, next) ==
  /\ log' = Append(log, <<op, file>>)
  /\ \E ok \in BOOLEAN :
       /\ failed' = IF ok THEN failed ELSE failed \cup {at}
       /\ pc' = Unwrap(ok, next)
  /\ UNCHANGED <<configVars, cutVars, coverVars, textVars>>

\* lines 17-19
MainCheckText ==
  /\ pc = "main"
  /\ pc' = IF IsEmptyText(text) THEN "rejected" ELSE "read_font"
  /\ UNCHANGED <<configVars, cutVars, coverVars, textVars, mainVars>>

\* line 119: fs::read(config.font).unwrap()
MainReadFont ==
  /\ pc = "read_font"
  /\ FileOp("read_font", "read", FontFile, "parse_font")

\* line 120: Font::try_from_vec(font).unwrap()
MainParseFont ==
  /\ pc = "parse_font"
  /\ \E ok \in BOOLEAN :
       /\ failed' = IF ok THEN failed ELSE failed \cup {"parse_font"}
       /\ pc' = Unwrap(ok, "layout")
  /\ UNCHANGED <<configVars, cutVars, coverVars, textVars, log>>

\* lines 122-162: an overflow in get_start_height panics in a debug build
MainLayout ==
  /\ pc = "layout"
  /\ \E ok \in (IF LayoutUnderflows(text) THEN BOOLEAN ELSE {TRUE}) :
       /\ failed' = IF ok THEN failed ELSE failed \cup {"layout"}
       /\ pc' = Unwrap(ok, "save_raw")
  /\ UNCHANGED <<configVars, cutVars, coverVars, textVars, log>>

\* line 164
MainSaveRaw ==
  /\ pc = "save_raw"
  /\ FileOp("save_raw", "write", RawFile, "save_rotated")

\* lines 169-172
MainSaveRotated ==
  /\ pc = "save_rotated"
  /\ FileOp("save_rotated", "write", RotatedFile, "cut")

\* lines 177-224: the tile cut_image computes
MainCut ==
  /\ pc = "cut"
  /\ watermark' \in TrimmedTiles
  /\ pc' = "save_cutted"
  /\ UNCHANGED <<image, line, column, i, j, calls, overlay_at>>
  /\ UNCHANGED <<configVars, cutVars, textVars, mainVars>>

\* lines 226-227
MainSaveCutted ==
  /\ pc = "save_cutted"
  /\ FileOp("save_cutted", "write", CuttedFile, "open_input")

\* line 82: image::open(config.input).unwrap()
MainOpenInput ==
  /\ pc = "open_input"
  /\ FileOp("open_input", "read", InputFile, "tile")

\* lines 84-96: a zero tile dimension is a division by zero
MainTile ==
  /\ pc = "tile"
  /\ LET ok == watermark.width # 0 /\ watermark.height # 0
     IN /\ failed' = IF ok THEN failed ELSE failed \cup {"tile"}
        /\ pc' = Unwrap(ok, "save_output")
  /\ UNCHANGED <<configVars, cutVars, coverVars, textVars, log>>

\* line 26: covered.save(&config.output).expect(..)
MainSaveOutput ==
  /\ pc = "save_output"
  /\ FileOp("save_output", "write", OutputFile, "done")

Next ==
  \/ MainCheckText
  \/ MainReadFont
  \/ MainParseFont
  \/ MainLayout
  \/ MainSaveRaw
  \/ MainSaveRotated
  \/ MainCut
  \/ MainSaveCutted
  \/ MainOpenInput
  \/ MainTile
  \/ MainSaveOutput

Init == MainInit /\ CutIdle /\ TextIdle

Spec == Init /\ [][Next]_vars

\* C6: with no text line the run is rejected before any file operation: the
\* font is not read, the input image not opened, no image written.
C6_EmptyTextNoFileIO ==
  text = <<>> => (log = <<>> /\ pc \in {"main", "rejected"})

\* an empty text has been rejected
C6_Witness == pc = "rejected" /\ text = <<>> /\ log = <<>>

Written(file) == \E k \in 1 .. Len(log) : log[k] = <<"write", file>>

====
